---- MODULE Spec2Model ----
(***************************************************************************)
(* Video Inspector: the extraction pipeline behind get_video_metadata      *)
(* (inspect) and the React front end (App.tsx, Video.tsx) that calls it.   *)
(*                                                                         *)
(* Several specifications share the definitions of this module:            *)
(*   SpecInspect  the pipeline orchestrator, one state machine per         *)
(*                invocation, with its child processes and the files on    *)
(*                disk;                                                    *)
(*   Spec         the front end: files, metadataMap, errorMap, the calls   *)
(*                in flight and the handleFileDrop closure held by the     *)
(*                event sources (SpecLive is the same front end when every *)
(*                call eventually settles);                                *)
(*   SpecDelete   the front end's delete button on a grid of cards;        *)
(*   SpecThumbs   the thumbnail generator's timestamps for one clip;       *)
(*   SpecRelease  one run of scripts/release-version.cjs on a working      *)
(*                tree and its git repository;                             *)
(*   SpecDownload one run of src-tauri/download-ffmpeg.sh                  *)
(*                (SpecDownloadLive is the same run of a shell that keeps  *)
(*                executing);                                              *)
(*   SpecListen   the effect of App.tsx that registers the webview's       *)
(*                drag-drop listener, over successive renders.             *)
(***************************************************************************)
EXTENDS Naturals, Sequences, FiniteSets, Bags, TLC

VARIABLES
    disk,         \* path -> the file at that path (what the tools will see)
    invs,         \* SpecInspect: the invocations of inspect, in call order
    files,        \* App: useState<string[]>
    metadataMap,  \* App: useState<Record<string, VideoMetadata>>
    errorMap,     \* App: useState<Record<string, string>>
    inflight,     \* App: the bag of get_video_metadata calls not yet completed
    hfdFiles,     \* App: the files array captured by the handleFileDrop
                  \*      closure that the event sources currently hold
    last,         \* App: the last handler that ran
    clip,         \* SpecThumbs: the clip's duration, in tenths of a second
    stamps,       \* SpecThumbs: the timestamps computed so far
    argv,         \* SpecRelease: process.argv.slice(2)
    tree,         \* SpecRelease: the version files in the working tree
    tree0,        \* SpecRelease: the version files when the script started
    git,          \* SpecRelease: the repository (work tree status, index,
                  \*              commits, tags)
    proc,         \* SpecRelease: the script's process (position, locals,
                  \*              commands run, exit code)
    dl,           \* SpecDownload: the download script's process, the curl
                  \*               calls it made and the binaries directory
    lsn           \* SpecListen: the effect runs, their registration promises,
                  \*             the listeners of the webview, unlistenRef

vars == <<disk, invs, files, metadataMap, errorMap, inflight, hfdFiles, last,
          clip, stamps, argv, tree, tree0, git, proc, dl, lsn>>

\* the variables of each part, for the steps that leave the part alone
AppUnchanged ==
    UNCHANGED <<disk, invs, files, metadataMap, errorMap, inflight, hfdFiles, last>>

ThumbsUnchanged == UNCHANGED <<clip, stamps>>

ReleaseUnchanged == UNCHANGED <<argv, tree, tree0, git, proc>>

DownloadUnchanged == UNCHANGED dl

ListenUnchanged == UNCHANGED lsn

----------------------------------------------------------------------------
(* Bounds of the model *)

\* inspect invocations started in one behaviour of SpecInspect
MaxCalls == 2
\* get_video_metadata calls in flight at one time in Spec
MaxInflight == 2
\* length of the files list
MaxFiles == 2
\* longest clip of SpecThumbs, in tenths of a second
MaxDuration == 30
\* cards in the grid when SpecDelete starts
MaxCards == 3
\* largest component of a version in a file when SpecRelease starts
MaxVer == 1

(* Program constants *)

\* number of thumbnails per video
ThumbCount == 4
\* the process runner's timeout, in ticks of the process clock
TimeoutTicks == 1

Paths == {"a.mp4", "b.mp4"}

\* JavaScript's undefined, as the value of a missing errorMap entry
Undefined == "<undefined>"

\* JavaScript's undefined, as the value of a missing metadataMap entry and of
\* a result not yet assembled
NoData == [undefined |-> TRUE]

----------------------------------------------------------------------------
(* Files on disk.  What the external tools do with a file is a function of *)
(* the file: kind says how the probing and transcoding tools and the       *)
(* reader behave on it (missing: no such path; good: a sound video;        *)
(* probeFail: the probing tool exits non-zero or prints no document;       *)
(* probeHang, thumbHang: a tool does not exit; noVideo: no usable video    *)
(* stream; thumbFail: no frame can be extracted; thumbFlaky: the last      *)
(* frame fails at its timestamp and succeeds slightly earlier; hashFail:   *)
(* a read error mid-stream), content is what the hasher digests.           *)

File(k, c) == [kind |-> k, content |-> c]

FileStates == {File("missing", 0), File("good", 1), File("good", 2),
               File("probeFail", 1), File("probeHang", 1), File("noVideo", 1),
               File("thumbFail", 1), File("thumbFlaky", 1), File("thumbHang", 1),
               File("hashFail", 1)}

----------------------------------------------------------------------------
(* The extraction pipeline (inspect).                                      *)

StageOrder == <<"Validate", "Probe", "Thumbnails", "Hash", "Assemble">>

Terminal == {"Done", "Failed"}

\* the stage after the k-th, Done after the last
StageAfter(k) == IF k < Len(StageOrder) THEN StageOrder[k + 1] ELSE "Done"

\* 4.1 Process Runner: ticks a tool needs on a file before it exits;
\* TimeoutTicks + 1 stands for a tool that does not exit
ToolTime(f, stage) ==
    IF \/ stage = "Probe" /\ f.kind = "probeHang"
       \/ stage = "Thumbnails" /\ f.kind = "thumbHang"
    THEN TimeoutTicks + 1
    ELSE 0

\* ValidateStage that leaves the existence check to the probing tool
ValidateStageSkipped(f) == "ok"

\* 4.5 Validate: the path exists and is a regular readable file
ValidateStage(f) == IF f.kind = "missing" THEN "FileNotFound" ELSE "ok"

\* 4.2 Probe Parser on the output of a probing tool that has exited
ProbeStage(f) ==
    CASE f.kind \in {"missing", "probeFail"} -> "ProbeFailed"
      [] f.kind = "noVideo"                  -> "UnsupportedOrCorrupt"
      [] OTHER                               -> "ok"

\* 4.2 the container's duration in the probing tool's document, in tenths
\* of a second (half a second and a second for the two contents)
ClipDuration(f) == 5 * f.content

\* 4.3 the transcoding tool on frame k (1..ThumbCount); retried says that
\* this is the second attempt, at a slightly earlier timestamp
FrameStage(f, k, retried) ==
    CASE f.kind \in {"missing", "thumbFail"}                   -> "fail"
      [] f.kind = "thumbFlaky" /\ k = ThumbCount /\ ~retried   -> "fail"
      [] OTHER                                                 -> "ok"

\* a time in tenths of a second, as the exact fraction num / den
Rat(n, d) == [num |-> n, den |-> d]

Less(a, b) == a.num * b.den < b.num * a.den

\* Timestamp cut to whole tenths of a second
TimestampWhole(duration, n, k) == Rat(((2 * k - 1) * duration) \div (2 * n), 1)

\* 4.3 the k-th of n evenly spaced timestamps of a clip: the middle of the
\* k-th of n equal parts (12.5%, 37.5%, 62.5%, 87.5% for n = 4), with an
\* inset of half a part at both ends
Timestamp(duration, n, k) == Rat((2 * k - 1) * duration, 2 * n)

\* 4.3 the timestamp of the one retry of frame k: a quarter of a part earlier
RetryTimestamp(duration, n, k) == Rat((4 * k - 3) * duration, 4 * n)

\* 4.4 Content Hasher: the hex digest of the content
HexDigest(c) == IF c = 1 THEN "9f86d081" ELSE IF c = 2 THEN "60303ae2" ELSE "e3b0c442"

HashStage(f) ==
    IF f.kind \in {"missing", "hashFail"} THEN "HashFailed" ELSE "ok"

\* a fresh invocation: nothing is carried over from earlier calls
NewInv(p) ==
    [path |-> p, stage |-> "Validate", child |-> "none", elapsed |-> 0,
     spawned |-> 0, duration |-> 0, seek |-> Rat(0, 1),
     frames |-> 0, retried |-> FALSE, hash |-> "",
     err |-> "", result |-> NoData, done |-> <<>>, stale |-> FALSE]

\* the message a PipelineError is rendered to
ErrMsg(e) == "inspect failed: " \o e

\* FailureResult that keeps what the earlier stages produced
FailureResultPartial(inv, e) ==
    [file_path |-> inv.path, resolution |-> "", frame_rate |-> "",
     duration |-> "", bit_rate |-> "", file_size |-> "", file_hash |-> inv.hash,
     thumbnails_base64 |-> [k \in 1..inv.frames |-> k], error |-> ErrMsg(e)]

\* 3. InspectionResult of a failed invocation: the error and nothing else
FailureResult(inv, e) ==
    [file_path |-> inv.path, resolution |-> "", frame_rate |-> "",
     duration |-> "", bit_rate |-> "", file_size |-> "", file_hash |-> "",
     thumbnails_base64 |-> <<>>, error |-> ErrMsg(e)]

\* 4.5 Assemble: the full result, no error field
AssembleResult(inv) ==
    [file_path |-> inv.path, resolution |-> "1920x1080", frame_rate |-> "30000/1001",
     duration |-> "0:10:00", bit_rate |-> "800 kbps", file_size |-> "60 MB",
     file_hash |-> inv.hash,
     thumbnails_base64 |-> [k \in 1..inv.frames |-> k], error |-> ""]

\* a stage has ended with outcome o
Logged(inv, o) == [inv EXCEPT !.done = Append(@, [stage |-> inv.stage, outcome |-> o])]

\* the stage failed with PipelineError e: the pipeline halts
Fail(inv, e) ==
    [Logged(inv, e) EXCEPT !.stage = "Failed", !.err = e,
                           !.result = FailureResult(inv, e)]

\* the stage succeeded: the next one starts
Advance(inv) ==
    [Logged(inv, "ok") EXCEPT !.stage = StageAfter(Len(inv.done) + 1)]

\* AfterStage that does not halt on a failure
AfterStageNoHalt(inv, o) ==
    [Logged(inv, o) EXCEPT !.stage = StageAfter(Len(inv.done) + 1)]

\* the orchestrator's step at the end of a stage with outcome o
AfterStage(inv, o) == IF o = "ok" THEN Advance(inv) ELSE Fail(inv, o)

\* 4.3 the timestamp the transcoding tool is given for the frame in turn
SeekOf(inv) ==
    IF inv.retried
    THEN RetryTimestamp(inv.duration, ThumbCount, inv.frames + 1)
    ELSE Timestamp(inv.duration, ThumbCount, inv.frames + 1)

\* the process runner launches a tool for the running stage
SpawnChild(inv) ==
    [inv EXCEPT !.child = "running", !.elapsed = 0, !.spawned = @ + 1,
                !.seek = IF inv.stage = "Thumbnails" THEN SeekOf(inv) ELSE @]

\* KillChild that gives up waiting and leaves the child alone
KillChildLeaked(inv) == inv

\* the process runner's bound is exceeded: the child is killed
KillChild(inv) == [inv EXCEPT !.child = "killed"]

\* the probing tool has exited and its output is parsed
AfterProbe(inv, f) ==
    AfterStage([inv EXCEPT !.child = "exited",
                           !.duration = IF ProbeStage(f) = "ok"
                                        THEN ClipDuration(f) ELSE @],
               ProbeStage(f))

\* AfterFrame that surfaces ThumbnailFailed at the first failure
AfterFrameNoRetry(inv, f) ==
    LET i == [inv EXCEPT !.child = "exited"]
        k == inv.frames + 1
    IN  IF FrameStage(f, k, inv.retried) = "ok"
        THEN LET j == [i EXCEPT !.frames = k, !.retried = FALSE]
             IN  IF k = ThumbCount THEN Advance(j) ELSE j
        ELSE Fail(i, "ThumbnailFailed")

\* the transcoding tool has exited on the current frame
AfterFrame(inv, f) ==
    LET i == [inv EXCEPT !.child = "exited"]
        k == inv.frames + 1
    IN  IF FrameStage(f, k, inv.retried) = "ok"
        THEN LET j == [i EXCEPT !.frames = k, !.retried = FALSE]
             IN  IF k = ThumbCount THEN Advance(j) ELSE j
        ELSE IF ~inv.retried
             THEN [i EXCEPT !.retried = TRUE]
             ELSE Fail(i, "ThumbnailFailed")

\* AfterHash with one digest object shared by all calls: a call after the
\* first digests its file on top of what the object was fed before
AfterHashShared(inv, f) ==
    IF HashStage(f) = "ok"
    THEN Advance([inv EXCEPT !.hash =
            IF \E j \in DOMAIN invs : invs[j].hash # ""
            THEN HexDigest(f.content + 2) ELSE HexDigest(f.content)])
    ELSE Fail(inv, "HashFailed")

\* the file has been streamed through the digest
AfterHash(inv, f) ==
    IF HashStage(f) = "ok"
    THEN Advance([inv EXCEPT !.hash = HexDigest(f.content)])
    ELSE Fail(inv, "HashFailed")

\* Assemble formats the result and the invocation is done
AfterAssemble(inv) ==
    [Advance(inv) EXCEPT !.result = AssembleResult(inv)]

(* Actions of SpecInspect *)

UIUnchanged ==
    /\ UNCHANGED <<files, metadataMap, errorMap, inflight, hfdFiles, last>>
    /\ ThumbsUnchanged /\ ReleaseUnchanged /\ DownloadUnchanged /\ ListenUnchanged

SetInv(i, inv) == invs' = [invs EXCEPT ![i] = inv] /\ UNCHANGED disk /\ UIUnchanged

Invoke(p) ==
    /\ Len(invs) < MaxCalls
    /\ invs' = Append(invs, NewInv(p))
    /\ UNCHANGED disk /\ UIUnchanged

Validate(i) ==
    /\ invs[i].stage = "Validate"
    /\ SetInv(i, AfterStage(invs[i], ValidateStage(disk[invs[i].path])))

Spawn(i) ==
    /\ invs[i].stage \in {"Probe", "Thumbnails"}
    /\ invs[i].child # "running"
    /\ SetInv(i, SpawnChild(invs[i]))

Tick(i) ==
    /\ invs[i].child = "running"
    /\ invs[i].elapsed < TimeoutTicks
    /\ invs[i].elapsed < ToolTime(disk[invs[i].path], invs[i].stage)
    /\ SetInv(i, [invs[i] EXCEPT !.elapsed = @ + 1])

ProbeExit(i) ==
    /\ invs[i].stage = "Probe"
    /\ invs[i].child = "running"
    /\ invs[i].elapsed >= ToolTime(disk[invs[i].path], "Probe")
    /\ SetInv(i, AfterProbe(invs[i], disk[invs[i].path]))

FrameExit(i) ==
    /\ invs[i].stage = "Thumbnails"
    /\ invs[i].child = "running"
    /\ invs[i].elapsed >= ToolTime(disk[invs[i].path], "Thumbnails")
    /\ SetInv(i, AfterFrame(invs[i], disk[invs[i].path]))

RunnerTimeout(i) ==
    /\ invs[i].child = "running"
    /\ invs[i].elapsed >= TimeoutTicks
    /\ SetInv(i, Fail(KillChild(invs[i]), "Timeout(" \o invs[i].stage \o ")"))

Hash(i) ==
    /\ invs[i].stage = "Hash"
    /\ SetInv(i, AfterHash(invs[i], disk[invs[i].path]))

Assemble(i) ==
    /\ invs[i].stage = "Assemble"
    /\ SetInv(i, AfterAssemble(invs[i]))

\* somebody else rewrites, replaces or removes the file at p (at most once
\* in the lifetime of a call)
ModifyFile(p, f) ==
    /\ f # disk[p]
    /\ \A i \in DOMAIN invs : invs[i].path = p => ~invs[i].stale
    /\ disk' = [disk EXCEPT ![p] = f]
    /\ invs' = [i \in DOMAIN invs |->
                  IF invs[i].path = p THEN [invs[i] EXCEPT !.stale = TRUE] ELSE invs[i]]
    /\ UIUnchanged

\* the parts a specification does not run stay as they are here
IdleThumbs == clip = 0 /\ stamps = <<>>

IdleRelease ==
    argv = <<>> /\ tree = <<>> /\ tree0 = <<>> /\ git = <<>> /\ proc = <<>>

IdleDownload == dl = <<>>

IdleListen == lsn = <<>>

InitUI ==
    /\ files = <<>>
    /\ metadataMap = [p \in Paths |-> NoData]
    /\ errorMap = [p \in Paths |-> Undefined]
    /\ inflight = EmptyBag
    /\ hfdFiles = <<>>
    /\ last = [op |-> "init", path |-> "", how |-> ""]

\* a.mp4 is any file; b.mp4 is a sound video that nobody touches
InitDisk == disk \in {d \in [Paths -> FileStates] : d["b.mp4"] = File("good", 2)}

InitInspect ==
    /\ InitDisk
    /\ invs = <<>>
    /\ InitUI
    /\ IdleThumbs /\ IdleRelease /\ IdleDownload /\ IdleListen

NextInspect ==
    \/ \E p \in Paths : Invoke(p)
    \/ \E i \in DOMAIN invs : Validate(i)
    \/ \E i \in DOMAIN invs : Spawn(i)
    \/ \E i \in DOMAIN invs : Tick(i)
    \/ \E i \in DOMAIN invs : ProbeExit(i)
    \/ \E i \in DOMAIN invs : FrameExit(i)
    \/ \E i \in DOMAIN invs : RunnerTimeout(i)
    \/ \E i \in DOMAIN invs : Hash(i)
    \/ \E i \in DOMAIN invs : Assemble(i)
    \/ \E f \in FileStates : ModifyFile("a.mp4", f)

SpecInspect == InitInspect /\ [][NextInspect]_vars

----------------------------------------------------------------------------
(* The thumbnail generator's timestamps, one clip per behaviour            *)

\* the generator computes the timestamp of the next frame
NextTimestamp ==
    /\ Len(stamps) < ThumbCount
    /\ stamps' = Append(stamps, Timestamp(clip, ThumbCount, Len(stamps) + 1))
    /\ UNCHANGED clip
    /\ AppUnchanged /\ ReleaseUnchanged /\ DownloadUnchanged /\ ListenUnchanged

InitThumbs ==
    /\ clip \in 1..MaxDuration
    /\ stamps = <<>>
    /\ InitDisk /\ disk["a.mp4"] = File("good", 1)
    /\ invs = <<>>
    /\ InitUI
    /\ IdleRelease /\ IdleDownload /\ IdleListen

NextThumbs == NextTimestamp

SpecThumbs == InitThumbs /\ [][NextThumbs]_vars

----------------------------------------------------------------------------
(* inspect as a function of the file: the pipeline run to its end on a     *)
(* file that does not change meanwhile.                                    *)

\* one step of an invocation on file f
StepInv(inv, f) ==
    IF inv.stage = "Validate" THEN AfterStage(inv, ValidateStage(f))
    ELSE IF inv.stage = "Hash" THEN AfterHash(inv, f)
    ELSE IF inv.stage = "Assemble" THEN AfterAssemble(inv)
    ELSE IF inv.child # "running" THEN SpawnChild(inv)
    ELSE IF inv.elapsed >= ToolTime(f, inv.stage)
         THEN IF inv.stage = "Probe" THEN AfterProbe(inv, f) ELSE AfterFrame(inv, f)
    ELSE IF inv.elapsed >= TimeoutTicks
         THEN Fail(KillChild(inv), "Timeout(" \o inv.stage \o ")")
    ELSE [inv EXCEPT !.elapsed = @ + 1]

RECURSIVE Run(_, _)
Run(inv, f) == IF inv.stage \in Terminal THEN inv ELSE Run(StepInv(inv, f), f)

Inspect(p, f) == Run(NewInv(p), f)

\* what the command hands to the caller's promise: a full result resolves
\* it; a failure rejects it with the message, or resolves it with a result
\* that carries the error
Deliveries(inv) ==
    IF inv.stage = "Done"
    THEN {[how |-> "resolved", result |-> inv.result, error |-> ""]}
    ELSE {[how |-> "resolved", result |-> inv.result, error |-> ""],
          [how |-> "rejected", result |-> NoData, error |-> ErrMsg(inv.err)]}

----------------------------------------------------------------------------
(* The front end: App.tsx and Video.tsx                                    *)

\* files the front end's calls may find on disk when they complete
SampleFiles == {File("good", 1), File("missing", 0)}

UnknownError == "errors.unknownError"

Range(s) == {s[i] : i \in DOMAIN s}

NumericFields == {"resolution", "frame_rate", "duration", "bit_rate", "file_size",
                  "file_hash", "thumbnails_base64"}

\* Video that looks at metadata before it looks at the error prop
VideoMetadataFirst(path, metadata, error) ==
    IF metadata # NoData /\ metadata.error = ""
    THEN [view |-> "result", shows |-> {"file_path"} \cup NumericFields,
          buttons |-> {"delete"}, retryPath |-> path]
    ELSE IF error # Undefined /\ error # ""
    THEN [view |-> "error", shows |-> {"path", "error"},
          buttons |-> {"delete", "retry"}, retryPath |-> path]
    ELSE IF metadata = NoData
    THEN [view |-> "loading", shows |-> {}, buttons |-> {}, retryPath |-> path]
    ELSE [view |-> "failed-result", shows |-> {"file_path", "metadata.error"},
          buttons |-> {"delete", "retry"}, retryPath |-> metadata.file_path]

\* Video.tsx: what the card renders for its props
Video(path, metadata, error) ==
    IF error # Undefined /\ error # ""
    THEN [view |-> "error", shows |-> {"path", "error"},
          buttons |-> {"delete", "retry"}, retryPath |-> path]
    ELSE IF metadata = NoData
    THEN [view |-> "loading", shows |-> {}, buttons |-> {}, retryPath |-> path]
    ELSE IF metadata.error # ""
    THEN [view |-> "failed-result", shows |-> {"file_path", "metadata.error"},
          buttons |-> {"delete", "retry"}, retryPath |-> metadata.file_path]
    ELSE [view |-> "result", shows |-> {"file_path"} \cup NumericFields,
          buttons |-> {"delete"}, retryPath |-> path]

\* App.tsx: the card of a file in the grid
Card(file) == Video(file, metadataMap[file], errorMap[file])

\* addFile's updater
addFile(prevFiles, file) == Append(prevFiles, file)

\* removeFile that splices out the first occurrence of file
removeFileSplice(prevFiles, file) ==
    LET at == CHOOSE i \in DOMAIN prevFiles :
                  /\ prevFiles[i] = file
                  /\ \A j \in 1..(i - 1) : prevFiles[j] # file
    IN  IF file \in Range(prevFiles)
        THEN SubSeq(prevFiles, 1, at - 1) \o SubSeq(prevFiles, at + 1, Len(prevFiles))
        ELSE prevFiles

\* removeFile's updater of files
removeFile(prevFiles, file) == SelectSeq(prevFiles, LAMBDA f : f # file)

\* delete newMap[key]
deleteKey(prevMap, key, undef) == [prevMap EXCEPT ![key] = undef]

\* processFileResolved that stores under the file added last
processFileResolvedLast(prevMap, file, result) ==
    [prevMap EXCEPT ![IF files = <<>> THEN file ELSE files[Len(files)]] = result]

\* processFile, try branch: setMetadataMap
processFileResolved(prevMap, file, result) == [prevMap EXCEPT ![file] = result]

\* processFileRejected that only logs the error
processFileRejectedLogged(prevMap, file, error) == prevMap

\* processFile, catch branch: setErrorMap
processFileRejected(prevMap, file, error) ==
    [prevMap EXCEPT ![file] = IF error # "" THEN error ELSE UnknownError]

\* a get_video_metadata call in flight; child says that the invocation has
\* passed Validate and is running its tool processes
Call(p, ch) == [path |-> p, child |-> ch]

\* an invoke that never reaches the backend
invokeLost(calls, file) == calls

\* invoke('get_video_metadata', {path: file})
invoke(calls, file) == calls (+) SetToBag({Call(file, FALSE)})

Ran(op, p, how) == last' = [op |-> op, path |-> p, how |-> how]

PipeUnchanged ==
    /\ UNCHANGED <<disk, invs>>
    /\ ThumbsUnchanged /\ ReleaseUnchanged /\ DownloadUnchanged /\ ListenUnchanged

\* handleFileDrop(file), called by an event source with the closure it holds;
\* a file the closure's files includes only raises a warning toast
HandleFileDrop(file) ==
    IF file \in Range(hfdFiles)
    THEN /\ Ran("handleFileDrop", file, "ignored")
         /\ UNCHANGED <<files, metadataMap, errorMap, inflight, hfdFiles>>
         /\ PipeUnchanged
    ELSE /\ Len(files) < MaxFiles
         /\ BagCardinality(inflight) < MaxInflight
         /\ files' = addFile(files, file)
         /\ inflight' = invoke(inflight, file)
         /\ Ran("handleFileDrop", file, "added")
         /\ UNCHANGED <<metadataMap, errorMap, hfdFiles>>
         /\ PipeUnchanged

\* the effect has registered a listener bound to the current handleFileDrop
\* and removed the previous one
Rebind ==
    /\ hfdFiles # files
    /\ hfdFiles' = files
    /\ Ran("rebind", "", "")
    /\ UNCHANGED <<files, metadataMap, errorMap, inflight>>
    /\ PipeUnchanged

\* the invocation behind a call has validated the path and launched a tool
BackendSpawn(c) ==
    /\ BagIn(c, inflight)
    /\ ~c.child
    /\ inflight' = (inflight (-) SetToBag({c})) (+) SetToBag({Call(c.path, TRUE)})
    /\ Ran("spawn", c.path, "")
    /\ UNCHANGED <<files, metadataMap, errorMap, hfdFiles>>
    /\ PipeUnchanged

\* processFile after the await: call c has completed and delivered d
ProcessFile(c, d) ==
    /\ BagIn(c, inflight)
    /\ inflight' = inflight (-) SetToBag({c})
    /\ IF d.how = "resolved"
       THEN /\ metadataMap' = processFileResolved(metadataMap, c.path, d.result)
            /\ UNCHANGED errorMap
       ELSE /\ errorMap' = processFileRejected(errorMap, c.path, d.error)
            /\ UNCHANGED metadataMap
    /\ Ran("processFile", c.path, d.how)
    /\ UNCHANGED <<files, hfdFiles>>
    /\ PipeUnchanged

\* handleDeleteVideo(filePath), from a card's delete button
HandleDeleteVideo(filePath) ==
    /\ filePath \in Range(files)
    /\ "delete" \in Card(filePath).buttons
    /\ files' = removeFile(files, filePath)
    /\ metadataMap' = deleteKey(metadataMap, filePath, NoData)
    /\ errorMap' = deleteKey(errorMap, filePath, Undefined)
    /\ Ran("removeFile", filePath, "")
    /\ UNCHANGED <<inflight, hfdFiles>>
    /\ PipeUnchanged

\* the maps after handleRetryVideo's two updaters
retryErrorMap(prevMap, filePath) == deleteKey(prevMap, filePath, Undefined)

\* retryMetadataMap that keeps the previous metadata
retryMetadataKept(prevMap, filePath) == prevMap

retryMetadataMap(prevMap, filePath) == deleteKey(prevMap, filePath, NoData)

\* handleRetryVideo(filePath), from the retry button of file's card
HandleRetryVideo(file) ==
    /\ file \in Range(files)
    /\ "retry" \in Card(file).buttons
    /\ BagCardinality(inflight) < MaxInflight
    /\ LET filePath == Card(file).retryPath
       IN  /\ errorMap' = retryErrorMap(errorMap, filePath)
           /\ metadataMap' = retryMetadataMap(metadataMap, filePath)
           /\ inflight' = invoke(inflight, filePath)
           /\ Ran("handleRetryVideo", filePath, "")
    /\ UNCHANGED <<files, hfdFiles>>
    /\ PipeUnchanged

\* Spec does not follow the files on disk: a call that completes has found
\* its file in one of the SampleFiles states
Init ==
    /\ disk = [p \in Paths |-> File("good", 1)]
    /\ invs = <<>>
    /\ InitUI
    /\ IdleThumbs /\ IdleRelease /\ IdleDownload /\ IdleListen

Next ==
    \/ \E file \in Paths : HandleFileDrop(file)
    \/ Rebind
    \/ \E c \in BagToSet(inflight) : BackendSpawn(c)
    \/ \E c \in BagToSet(inflight), f \in SampleFiles :
          /\ c.child = (Inspect(c.path, f).spawned > 0)
          /\ \E d \in Deliveries(Inspect(c.path, f)) : ProcessFile(c, d)
    \/ \E file \in Paths : HandleDeleteVideo(file)
    \/ \E file \in Paths : HandleRetryVideo(file)

Spec == Init /\ [][Next]_vars

\* what get_video_metadata makes of each path for each state of its file
Outcomes == [p \in Paths, f \in SampleFiles |-> Inspect(p, f)]

\* the promise of a call for path p settles: the call resolves or rejects
\* and processFile runs on
CallSettles(p) ==
    \E c \in BagToSet(inflight), f \in SampleFiles :
        /\ c.path = p
        /\ c.child = (Outcomes[p, f].spawned > 0)
        /\ \E d \in Deliveries(Outcomes[p, f]) : ProcessFile(c, d)

\* the front end when no call stays pending forever
SpecLive == Spec /\ \A p \in Paths : WF_vars(CallSettles(p))

----------------------------------------------------------------------------
(* The delete button alone, on any grid of up to MaxCards cards over three *)
(* paths: the list may hold a path twice (two drops through one closure)   *)
(* and the maps may hold entries of paths that are not in the list (a call *)
(* that completed after its card was deleted).                             *)

Names == Paths \cup {"c.mp4"}

\* the sequences over S of length up to n
RECURSIVE SeqsUpTo(_, _)
SeqsUpTo(S, n) ==
    IF n = 0 THEN {<<>>}
    ELSE LET shorter == SeqsUpTo(S, n - 1)
         IN  shorter \cup {Append(q, x) : q \in shorter, x \in S}

\* what a completed call may have stored for path p
StoredMetadata(p) ==
    {NoData} \cup {d.result : d \in {e \in UNION {Deliveries(Inspect(p, f)) : f \in SampleFiles} :
                                      e.how = "resolved"}}

InitDelete ==
    /\ files \in SeqsUpTo(Names, MaxCards)
    /\ metadataMap \in {m \in [Names -> UNION {StoredMetadata(p) : p \in Names}] :
                            \A p \in Names : m[p] \in StoredMetadata(p)}
    /\ errorMap \in [Names -> {Undefined, ErrMsg("FileNotFound")}]
    /\ inflight = EmptyBag
    /\ hfdFiles = files
    /\ last = [op |-> "init", path |-> "", how |-> ""]
    /\ disk = [p \in Paths |-> File("good", 1)]
    /\ invs = <<>>
    /\ IdleThumbs /\ IdleRelease /\ IdleDownload /\ IdleListen

NextDelete == \E file \in Names : HandleDeleteVideo(file)

SpecDelete == InitDelete /\ [][NextDelete]_vars

----------------------------------------------------------------------------
(* scripts/release-version.cjs, one run.  A version string is the sequence *)
(* of its dot-separated numbers (<<0, 1, 0>> is "0.1.0", <<0, 1>> is       *)
(* "0.1", <<>> is no version at all); a parsed version is the object       *)
(* {major, minor, patch}.                                                  *)

FILES == [packageJson |-> "package.json",
          cargoToml   |-> "src-tauri/Cargo.toml",
          tauriConf   |-> "src-tauri/tauri.conf.json"]

CargoLock == "src-tauri/Cargo.lock"

\* a file of the repository that is none of the script's business
OtherFile == "README.md"

Levels == {"patch", "minor", "major"}

\* String.prototype.toLowerCase on the arguments of the model
toLowerCase(str) ==
    CASE str = "MINOR" -> "minor"
      [] str = "Patch" -> "patch"
      [] OTHER         -> str

\* /^(\d+)\.(\d+)\.(\d+)$/ matches
VersionRegex(versionStr) == Len(versionStr) = 3

parseVersion(versionStr) ==
    [major |-> versionStr[1], minor |-> versionStr[2], patch |-> versionStr[3]]

formatVersion(version) == <<version.major, version.minor, version.patch>>

\* bumpVersion that leaves the patch number alone on a minor bump
bumpVersionKeepPatch(version, level) ==
    [version |-> version,
     newVersion |->
        CASE level = "major" -> [major |-> version.major + 1, minor |-> 0, patch |-> 0]
          [] level = "minor" -> [version EXCEPT !.minor = @ + 1]
          [] level = "patch" -> [version EXCEPT !.patch = @ + 1]
          [] OTHER           -> version]

\* bumpVersion(version, level): the object returned (newVersion, a copy that
\* is then changed) and the argument as the call leaves it (version)
bumpVersion(version, level) ==
    [version |-> version,
     newVersion |->
        CASE level = "major" -> [major |-> version.major + 1, minor |-> 0, patch |-> 0]
          [] level = "minor" -> [version EXCEPT !.minor = @ + 1, !.patch = 0]
          [] level = "patch" -> [version EXCEPT !.patch = @ + 1]
          [] OTHER           -> version]

\* a file of the working tree: whether it exists and the version it carries
Content(e, v) == [exists |-> e, version |-> v]

\* argsOk that only asks for a first argument
argsOkLoose(args) == Len(args) > 0 /\ toLowerCase(args[1]) \in Levels

\* main: the argument checks pass
argsOk(args) ==
    /\ ~(Len(args) = 0 \/ Len(args) > 2)
    /\ toLowerCase(args[1]) \in Levels

\* shouldCommit that was never wired to the flag
shouldCommitAlways(args) == TRUE

\* main: const shouldCommit = !args.includes('--no-commit')
shouldCommit(args) == "--no-commit" \notin Range(args)

\* the three updaters' new content of their file
updatePackageJson(content, newVersion) ==
    [content EXCEPT !.version = formatVersion(newVersion)]

\* updateCargoToml whose replace finds nothing to replace
updateCargoTomlNoMatch(content, newVersion) == content

updateCargoToml(content, newVersion) ==
    [content EXCEPT !.version = formatVersion(newVersion)]

updateTauriConf(content, newVersion) ==
    [content EXCEPT !.version = formatVersion(newVersion)]

\* the process leaves with exit code c
Exit(p, c) == [p EXCEPT !.pc = "exit", !.code = c]

\* a command or a file write has been run, with or without success
Cmd(p, cmd, arg, ok) ==
    [p EXCEPT !.cmds = Append(@, [cmd |-> cmd, arg |-> arg, ok |-> ok])]

\* the work tree status after filePath was written with other content
Modified(g, filePath) == [g EXCEPT !.status = @ \cup {filePath}]

ScriptUnchanged ==
    /\ AppUnchanged /\ ThumbsUnchanged /\ UNCHANGED <<argv, tree0>>
    /\ DownloadUnchanged /\ ListenUnchanged

\* main, up to the bump level check
Main ==
    /\ proc.pc = "main"
    /\ proc' = IF argsOk(argv)
               THEN [proc EXCEPT !.pc = "read",
                                 !.bumpLevel = toLowerCase(argv[1]),
                                 !.shouldCommit = shouldCommit(argv)]
               ELSE Exit(proc, 1)
    /\ UNCHANGED <<tree, git>> /\ ScriptUnchanged

\* main: read package.json, parse the current version and bump it
ReadCurrent ==
    /\ proc.pc = "read"
    /\ LET packageData == tree[FILES.packageJson]
           bumped == bumpVersion(parseVersion(packageData.version), proc.bumpLevel)
       IN  proc' = IF \/ ~packageData.exists
                      \/ packageData.version = <<>>
                      \/ ~VersionRegex(packageData.version)
                      \/ proc.bumpLevel \notin Levels
                   THEN Exit(proc, 1)
                   ELSE [proc EXCEPT !.pc = "updatePackageJson",
                                     !.currentVersion = bumped.version,
                                     !.newVersion = bumped.newVersion]
    /\ UNCHANGED <<tree, git>> /\ ScriptUnchanged


\* writeFile(filePath, content) after a successful read: the write succeeds
\* (ok) and the script goes on at pc next, or it fails and the script exits
WriteFile(filePath, content, ok, next) ==
    IF ok
    THEN /\ tree' = [tree EXCEPT ![filePath] = content]
         /\ git' = Modified(git, filePath)
         /\ proc' = [Cmd(proc, "write", filePath, TRUE) EXCEPT !.pc = next]
    ELSE /\ proc' = Exit(Cmd(proc, "write", filePath, FALSE), 1)
         /\ UNCHANGED <<tree, git>>

UpdatePackageJson(ok) ==
    /\ proc.pc = "updatePackageJson"
    /\ LET content == tree[FILES.packageJson]
       IN  IF ~content.exists
           THEN proc' = Exit(proc, 1) /\ UNCHANGED <<tree, git>>
           ELSE WriteFile(FILES.packageJson,
                          updatePackageJson(content, proc.newVersion),
                          ok, "updateCargoToml")
    /\ ScriptUnchanged

UpdateCargoToml(ok) ==
    /\ proc.pc = "updateCargoToml"
    /\ LET content == tree[FILES.cargoToml]
       IN  IF ~content.exists \/ content.version = <<>>
           THEN proc' = Exit(proc, 1) /\ UNCHANGED <<tree, git>>
           ELSE WriteFile(FILES.cargoToml,
                          updateCargoToml(content, proc.newVersion),
                          ok, "updateTauriConf")
    /\ ScriptUnchanged

UpdateTauriConf(ok) ==
    /\ proc.pc = "updateTauriConf"
    /\ LET content == tree[FILES.tauriConf]
       IN  IF ~content.exists \/ content.version = <<>>
           THEN proc' = Exit(proc, 1) /\ UNCHANGED <<tree, git>>
           ELSE WriteFile(FILES.tauriConf,
                          updateTauriConf(content, proc.newVersion),
                          ok, "verify")
    /\ ScriptUnchanged

\* main: the mismatch warning, then commitVersionChanges or the manual steps
Verify ==
    /\ proc.pc = "verify"
    /\ LET mismatch == \/ tree0[FILES.packageJson].version # tree0[FILES.cargoToml].version
                       \/ tree0[FILES.packageJson].version # tree0[FILES.tauriConf].version
           p == [proc EXCEPT !.warned = mismatch]
       IN  proc' = IF proc.shouldCommit
                   THEN [p EXCEPT !.pc = "checkGitStatus"]
                   ELSE Exit(p, 0)
    /\ UNCHANGED <<tree, git>> /\ ScriptUnchanged

\* commitVersionChanges: without git, or outside a repository, it returns
CheckGitStatus(available) ==
    /\ proc.pc = "checkGitStatus"
    /\ proc' = IF available THEN [proc EXCEPT !.pc = "updateCargoLock"]
                            ELSE Exit(proc, 0)
    /\ UNCHANGED <<tree, git>> /\ ScriptUnchanged

\* updateCargoLock: cargo check rewrites Cargo.lock for the new version of
\* Cargo.toml; its failure is only warned about
UpdateCargoLock(ok) ==
    /\ proc.pc = "updateCargoLock"
    /\ proc' = [Cmd(proc, "cargo check", CargoLock, ok) EXCEPT !.pc = "addVersionFiles"]
    /\ git' = IF ok THEN Modified(git, CargoLock) ELSE git
    /\ UNCHANGED tree /\ ScriptUnchanged

versionFiles == <<FILES.packageJson, FILES.cargoToml, FILES.tauriConf, CargoLock>>

\* addVersionFiles, one turn of its loop: git add of the next file when git
\* status reports it; a failure of either command skips the file
AddVersionFile(ok) ==
    /\ proc.pc = "addVersionFiles"
    /\ LET file == versionFiles[proc.added + 1]
           p == [proc EXCEPT !.added = @ + 1,
                             !.pc = IF proc.added + 1 = Len(versionFiles)
                                    THEN "hasStagedChanges" ELSE @]
       IN  IF file \in git.status \cup git.index
           THEN /\ proc' = Cmd(p, "git add", file, ok)
                /\ git' = IF ok
                          THEN [git EXCEPT !.status = @ \ {file}, !.index = @ \cup {file}]
                          ELSE git
           ELSE /\ ok
                /\ proc' = p
                /\ UNCHANGED git
    /\ UNCHANGED tree /\ ScriptUnchanged

\* hasStagedChanges that finds something staged in any repository
hasStagedChangesAlways(g) == TRUE

\* git diff --cached --name-only prints a name
hasStagedChanges(g) == g.index # {}

\* commitVersionChanges: nothing staged, nothing to commit
HasStagedChanges ==
    /\ proc.pc = "hasStagedChanges"
    /\ proc' = IF ~hasStagedChanges(git) THEN Exit(proc, 0) ELSE [proc EXCEPT !.pc = "commit"]
    /\ UNCHANGED <<tree, git>> /\ ScriptUnchanged

\* execGitCommand('git commit -m ...'): a failure ends the process
Commit(ok) ==
    /\ proc.pc = "commit"
    /\ proc' = IF ok THEN [Cmd(proc, "git commit", "", TRUE) EXCEPT !.pc = "tag"]
                     ELSE Exit(Cmd(proc, "git commit", "", FALSE), 1)
    /\ git' = IF ok
              THEN [git EXCEPT !.index = {},
                               !.commits = Append(@, [version |-> formatVersion(proc.newVersion),
                                                      files |-> git.index])]
              ELSE git
    /\ UNCHANGED tree /\ ScriptUnchanged

\* execGitCommand('git tag v...'): a failure ends the process
Tag(ok) ==
    /\ proc.pc = "tag"
    /\ proc' = IF ok THEN Exit(Cmd(proc, "git tag", "", TRUE), 0)
                     ELSE Exit(Cmd(proc, "git tag", "", FALSE), 1)
    /\ git' = IF ok THEN [git EXCEPT !.tags = @ \cup {formatVersion(proc.newVersion)}]
                    ELSE git
    /\ UNCHANGED tree /\ ScriptUnchanged

\* the version strings a file may carry when the script starts
Versions == {<<x, y, z>> : x \in 0..MaxVer, y \in 0..MaxVer, z \in 0..MaxVer}

ArgLists == {<<>>, <<"patch">>, <<"minor">>, <<"major">>, <<"MINOR">>, <<"bogus">>,
             <<"--no-commit">>, <<"patch", "--no-commit">>, <<"major", "--no-commit">>,
             <<"Patch", "--no-commit">>, <<"--no-commit", "patch">>,
             <<"minor", "--no-commit", "patch">>}

InitRelease ==
    /\ argv \in ArgLists
    /\ tree \in {t \in [{FILES.packageJson, FILES.cargoToml, FILES.tauriConf} ->
                           {Content(FALSE, <<>>)} \cup
                           {Content(TRUE, v) : v \in Versions \cup {<<>>, <<0, 1>>}}] :
                    /\ t[FILES.cargoToml].version \in {<<>>, <<0, 1, 0>>, <<0, 1, 1>>}
                    /\ t[FILES.tauriConf].version \in {<<>>, <<0, 1, 0>>, <<0, 1, 1>>}}
    /\ tree0 = tree
    /\ git \in {[status |-> st, index |-> {}, commits |-> <<>>, tags |-> {}] :
                   st \in SUBSET {OtherFile}}
    /\ proc = [pc |-> "main", code |-> 0, bumpLevel |-> "", shouldCommit |-> TRUE,
               currentVersion |-> parseVersion(<<0, 0, 0>>),
               newVersion |-> parseVersion(<<0, 0, 0>>),
               warned |-> FALSE, added |-> 0, cmds |-> <<>>]
    /\ disk = [p \in Paths |-> File("good", 1)]
    /\ invs = <<>>
    /\ InitUI
    /\ IdleThumbs /\ IdleDownload /\ IdleListen

NextRelease ==
    \/ Main
    \/ ReadCurrent
    \/ \E ok \in BOOLEAN : UpdatePackageJson(ok)
    \/ \E ok \in BOOLEAN : UpdateCargoToml(ok)
    \/ \E ok \in BOOLEAN : UpdateTauriConf(ok)
    \/ Verify
    \/ \E available \in BOOLEAN : CheckGitStatus(available)
    \/ \E ok \in BOOLEAN : UpdateCargoLock(ok)
    \/ \E ok \in BOOLEAN : AddVersionFile(ok)
    \/ HasStagedChanges
    \/ \E ok \in BOOLEAN : Commit(ok)
    \/ \E ok \in BOOLEAN : Tag(ok)

SpecRelease == InitRelease /\ [][NextRelease]_vars

----------------------------------------------------------------------------
(* src-tauri/download-ffmpeg.sh: one run of the script under set -e *)

\* attempts that download_with_retry makes on one source
max_retries == 2

MACOS_FFMPEG_URL == "https://evermeet.cx/ffmpeg/get/zip"

MACOS_FFPROBE_URL == "https://evermeet.cx/ffmpeg/get/ffprobe/zip"

MACOS_ARM64_FFMPEG_URL == "https://www.osxexperts.net/ffmpeg6arm.zip"

MACOS_ARM64_FFPROBE_URL == "https://www.osxexperts.net/ffprobe6arm.zip"

WINDOWS_URL == "https://www.gyan.dev/ffmpeg/builds/ffmpeg-release-essentials.zip"

\* the Linux sources, in the order of the array
LINUX_URLS ==
    << "https://github.com/BtbN/FFmpeg-Builds/releases/latest/download/ffmpeg-master-latest-linux64-gpl.tar.xz",
       "https://johnvansickle.com/ffmpeg/releases/ffmpeg-release-amd64-static.tar.xz",
       "https://github.com/yt-dlp/FFmpeg-Builds/releases/latest/download/ffmpeg-master-latest-linux64-gpl.tar.xz" >>

get_target_triple(platform) ==
    CASE platform = "macos_x86" -> "x86_64-apple-darwin"
      [] platform = "macos_arm64" -> "aarch64-apple-darwin"
      [] platform = "windows" -> "x86_64-pc-windows-msvc"
      [] platform = "linux" -> "x86_64-unknown-linux-gnu"
      [] OTHER -> "unknown"

get_platform_from_targetAnyLinux(triple) ==
    CASE triple = "x86_64-apple-darwin" -> "macos_x86"
      [] triple = "aarch64-apple-darwin" -> "macos_arm64"
      [] triple = "x86_64-pc-windows-msvc" -> "windows"
      [] OTHER -> "linux"

get_platform_from_target(triple) ==
    CASE triple = "x86_64-apple-darwin" -> "macos_x86"
      [] triple = "aarch64-apple-darwin" -> "macos_arm64"
      [] triple = "x86_64-pc-windows-msvc" -> "windows"
      [] triple = "x86_64-unknown-linux-gnu" -> "linux"
      [] OTHER -> "unknown"

\* uname -s names that match the patterns "MINGW"*, "MSYS"*, "CYGWIN"*
WindowsShells == {"MINGW64_NT", "MSYS_NT", "CYGWIN_NT"}

detect_current_target(host) ==
    CASE host.os = "Darwin" ->
            (CASE host.arch = "x86_64" -> "x86_64-apple-darwin"
               [] host.arch = "arm64" -> "aarch64-apple-darwin"
               [] OTHER -> "unknown")
      [] host.os = "Linux" ->
            (CASE host.arch = "x86_64" -> "x86_64-unknown-linux-gnu"
               [] OTHER -> "unknown")
      [] host.os \in WindowsShells ->
            (CASE host.arch = "x86_64" -> "x86_64-pc-windows-msvc"
               [] OTHER -> "unknown")
      [] OTHER -> "unknown"

Tools == {"ffmpeg", "ffprobe"}

\* the file "$BASE_DIR/<tool>-<triple>" (with .exe for Windows)
Binary(tool, triple) == <<tool, triple>>

\* an archive as the script finds it after the download: whether the
\* extraction tool accepts it, whether it has a bin directory, and the tools
\* that find / test -f come upon where the script looks for them
Archives == [valid : BOOLEAN, bin : BOOLEAN, tools : SUBSET Tools]

\* exit statuses of curl: 0, or the status of a failed transfer
ToolStatus == {0, 22}

\* exit N, or the end of the script under set -e after a failed command
ExitScript(d, status) == [d EXCEPT !.pc = "exit", !.code = status]

IdleRetry == [url |-> 0, i |-> 0, attempts |-> <<>>, result |-> "idle"]

\* one pass of the inner loop body of download_with_retry: the curl call of
\* attempt r.i on source r.url, then return 0, the next attempt, the next
\* source, or return 1
download_with_retryNextSource(r, urls, ok) ==
    LET tried == [r EXCEPT !.attempts = Append(@, [url |-> urls[r.url], i |-> r.i, ok |-> ok])]
    IN  IF ok THEN [tried EXCEPT !.result = "success"]
        ELSE IF r.url < Len(urls) THEN [tried EXCEPT !.url = @ + 1, !.i = 1]
        ELSE [tried EXCEPT !.result = "failure"]

download_with_retry(r, urls, ok) ==
    LET tried == [r EXCEPT !.attempts = Append(@, [url |-> urls[r.url], i |-> r.i, ok |-> ok])]
    IN  IF ok THEN [tried EXCEPT !.result = "success"]
        ELSE IF r.i < max_retries THEN [tried EXCEPT !.i = @ + 1]
        ELSE IF r.url < Len(urls) THEN [tried EXCEPT !.url = @ + 1, !.i = 1]
        ELSE [tried EXCEPT !.result = "failure"]

\* the platforms the last block of the script processes, in its order
Dispatch(d) ==
    IF d.TARGET_TRIPLE_ARG # ""
    THEN <<d.PLATFORM>>
    ELSE <<"macos_x86", "macos_arm64", "windows", "linux">>

\* the download function the script calls next ("" before the summary)
NextFunction(d) ==
    IF d.pc = "run" /\ Len(d.started) < Len(Dispatch(d))
    THEN Dispatch(d)[Len(d.started) + 1]
    ELSE ""

Curl(d, url, status) == [d EXCEPT !.curls = Append(@, [url |-> url, status |-> status])]

\* cp of a tool the archive holds to the binaries directory; a tool it does
\* not hold only prints the "not found" warning
CopyFound(d, tool, zip, triple) ==
    IF tool \in zip.tools THEN [d EXCEPT !.bins = @ \cup {Binary(tool, triple)}] ELSE d

AppUnchangedByScript ==
    AppUnchanged /\ ThumbsUnchanged /\ ReleaseUnchanged /\ ListenUnchanged

ParseArguments ==
    /\ dl.pc = "args"
    /\ LET current == dl.arg \in {"--current", "-c"}
           triple == IF current THEN detect_current_target(dl.host) ELSE dl.arg
           platform == IF triple # "" THEN get_platform_from_target(triple) ELSE ""
       IN  dl' = IF (current /\ triple = "unknown") \/ platform = "unknown"
                 THEN ExitScript(dl, 1)
                 ELSE [dl EXCEPT !.pc = "deps", !.TARGET_TRIPLE_ARG = triple,
                                 !.PLATFORM = platform]
    /\ AppUnchangedByScript

\* check_command curl, unzip, tar
CheckCommands(present) ==
    /\ dl.pc = "deps"
    /\ dl' = IF present THEN [dl EXCEPT !.pc = "run"] ELSE ExitScript(dl, 1)
    /\ AppUnchangedByScript

\* one of the two halves of a macOS download function: the curl of the
\* tool's archive, unzip, find, and cp when the binary was found
DownloadMacosTool(d, platform, url, tool, status, zip) ==
    LET entered == IF tool = "ffmpeg"
                   THEN [d EXCEPT !.started = Append(@, platform)]
                   ELSE d
        fetched == Curl(entered, url, status)
    IN  IF status # 0 THEN ExitScript(fetched, status)
        ELSE IF ~zip.valid THEN ExitScript(fetched, 2)
        ELSE [CopyFound(fetched, tool, zip, get_target_triple(platform))
                EXCEPT !.pc = IF tool = "ffmpeg" THEN platform ELSE "run"]

download_macos_x86(status, zip) ==
    /\ \/ /\ NextFunction(dl) = "macos_x86"
          /\ dl' = DownloadMacosTool(dl, "macos_x86", MACOS_FFMPEG_URL, "ffmpeg", status, zip)
       \/ /\ dl.pc = "macos_x86"
          /\ dl' = DownloadMacosTool(dl, "macos_x86", MACOS_FFPROBE_URL, "ffprobe", status, zip)
    /\ AppUnchangedByScript

download_macos_arm64(status, zip) ==
    /\ \/ /\ NextFunction(dl) = "macos_arm64"
          /\ dl' = DownloadMacosTool(dl, "macos_arm64", MACOS_ARM64_FFMPEG_URL, "ffmpeg", status, zip)
       \/ /\ dl.pc = "macos_arm64"
          /\ dl' = DownloadMacosTool(dl, "macos_arm64", MACOS_ARM64_FFPROBE_URL, "ffprobe", status, zip)
    /\ AppUnchangedByScript

download_windows(status, zip) ==
    /\ NextFunction(dl) = "windows"
    /\ LET fetched == Curl([dl EXCEPT !.started = Append(@, "windows")], WINDOWS_URL, status)
           triple == get_target_triple("windows")
       IN  dl' = IF status # 0 THEN ExitScript(fetched, status)
                 ELSE IF ~zip.valid THEN ExitScript(fetched, 2)
                 ELSE IF ~zip.bin THEN ExitScript(fetched, 1)
                 ELSE CopyFound(CopyFound(fetched, "ffmpeg", zip, triple),
                                "ffprobe", zip, triple)
    /\ AppUnchangedByScript

\* download_linux up to the call of download_with_retry
download_linux ==
    /\ NextFunction(dl) = "linux"
    /\ dl' = [dl EXCEPT !.started = Append(@, "linux"), !.pc = "retry",
                        !.retry = [url |-> 1, i |-> 1, attempts |-> <<>>,
                                   result |-> "running"]]
    /\ AppUnchangedByScript

\* one curl of download_with_retry; when every source has failed
\* download_linux returns 1 and the script ends with that status
DownloadAttempt(status) ==
    /\ dl.pc = "retry"
    /\ LET r == download_with_retry(dl.retry, LINUX_URLS, status = 0)
           fetched == Curl([dl EXCEPT !.retry = r], LINUX_URLS[dl.retry.url], status)
       IN  dl' = CASE r.result = "success" -> [fetched EXCEPT !.pc = "extract"]
                   [] r.result = "failure" -> ExitScript(fetched, 1)
                   [] OTHER -> fetched
    /\ AppUnchangedByScript

\* download_linux after the download: tar, the search for the binaries, cp,
\* and the ffmpeg binary standing in for a missing ffprobe
InstallLinux(zip) ==
    /\ dl.pc = "extract"
    /\ LET triple == get_target_triple("linux")
           ffmpeg == CopyFound(dl, "ffmpeg", zip, triple)
           ffprobe == IF "ffprobe" \in zip.tools \/ "ffmpeg" \in zip.tools
                      THEN [ffmpeg EXCEPT !.bins = @ \cup {Binary("ffprobe", triple)}]
                      ELSE ffmpeg
       IN  dl' = IF ~zip.valid THEN ExitScript(dl, 2)
                 ELSE [ffprobe EXCEPT !.pc = "run"]
    /\ AppUnchangedByScript

\* the success summary after the last download function, and the end of
\* the script
Summary ==
    /\ dl.pc = "run" /\ Len(dl.started) = Len(Dispatch(dl))
    /\ dl' = [ExitScript(dl, 0) EXCEPT
                !.summary = {get_target_triple(Dispatch(dl)[k]) :
                                k \in 1..Len(Dispatch(dl))}]
    /\ AppUnchangedByScript

Args == {"", "--current", "-c", "x86_64-apple-darwin", "aarch64-apple-darwin",
         "x86_64-pc-windows-msvc", "x86_64-unknown-linux-gnu",
         "riscv64-unknown-linux-gnu"}

Hosts == [os : {"Darwin", "Linux", "MINGW64_NT", "FreeBSD"}, arch : {"x86_64", "arm64"}]

InitDownload ==
    /\ dl \in {[arg |-> a, host |-> h, pc |-> "args", code |-> 0,
                TARGET_TRIPLE_ARG |-> "", PLATFORM |-> "", started |-> <<>>,
                curls |-> <<>>, retry |-> IdleRetry, bins |-> {},
                summary |-> {}] : a \in Args, h \in Hosts}
    \* uname is only asked with --current or -c
    /\ dl.arg \in {"--current", "-c"} \/ dl.host = [os |-> "Linux", arch |-> "x86_64"]
    /\ disk = [p \in Paths |-> File("good", 1)]
    /\ invs = <<>>
    /\ InitUI
    /\ IdleThumbs /\ IdleRelease /\ IdleListen

NextDownload ==
    \/ ParseArguments
    \/ \E present \in BOOLEAN : CheckCommands(present)
    \/ \E status \in ToolStatus, zip \in Archives : download_macos_x86(status, zip)
    \/ \E status \in ToolStatus, zip \in Archives : download_macos_arm64(status, zip)
    \/ \E status \in ToolStatus, zip \in Archives : download_windows(status, zip)
    \/ download_linux
    \/ \E status \in ToolStatus : DownloadAttempt(status)
    \/ \E zip \in Archives : InstallLinux(zip)
    \/ Summary

SpecDownload == InitDownload /\ [][NextDownload]_vars

\* the shell keeps executing the script, and every command it starts ends
\* (curl is bounded by --max-time)
SpecDownloadLive == SpecDownload /\ WF_vars(NextDownload)

----------------------------------------------------------------------------
(* App.tsx: the effect that listens for the webview's drag-drop events *)

\* effect runs (renders with a new handleFileDrop) in one behaviour
MaxRenders == 4
\* drop events in one behaviour
MaxDrops == 2

\* unlistenRef.current before the first registration has resolved
NoUnlisten == 0

AppUnchangedByEffect ==
    AppUnchanged /\ ThumbsUnchanged /\ ReleaseUnchanged /\ DownloadUnchanged

\* a render has produced a new handleFileDrop and the effect runs: it calls
\* onDragDropEvent with a callback bound to that handleFileDrop; the effect
\* returns no cleanup
EffectRun ==
    /\ lsn.render < MaxRenders
    /\ lsn' = [lsn EXCEPT !.render = @ + 1, !.pending = @ \cup {lsn.render + 1}]
    /\ AppUnchangedByEffect

\* the registration promise of effect run g resolves with its unlisten and
\* the then-callback runs: the unlisten held by unlistenRef is called and
\* unlistenRef.current becomes the new one
RegistrationResolves(g) ==
    /\ g \in lsn.pending
    /\ lsn' = [lsn EXCEPT !.pending = @ \ {g},
                          !.listeners = (@ \ {lsn.unlistenRef}) \cup {g},
                          !.unlistenRef = g]
    /\ AppUnchangedByEffect

\* the webview emits one drop event with a path: every registered listener
\* calls the handleFileDrop it is bound to
DropEvent ==
    /\ lsn.drops < MaxDrops
    /\ lsn' = [lsn EXCEPT !.drops = @ + 1, !.handledBy = lsn.listeners]
    /\ AppUnchangedByEffect

InitListen ==
    /\ lsn = [render |-> 0, pending |-> {}, listeners |-> {},
              unlistenRef |-> NoUnlisten, drops |-> 0, handledBy |-> {}]
    /\ disk = [p \in Paths |-> File("good", 1)]
    /\ invs = <<>>
    /\ InitUI
    /\ IdleThumbs /\ IdleRelease /\ IdleDownload

NextListen ==
    \/ EffectRun
    \/ \E g \in 1..MaxRenders : RegistrationResolves(g)
    \/ DropEvent

SpecListen == InitListen /\ [][NextListen]_vars

----------------------------------------------------------------------------
(* Properties *)

IsTerminal(inv) == inv.stage \in Terminal

IsFresh(inv) == ~inv.stale

\* every numeric or derived field of an InspectionResult is empty
FieldsEmpty(r) ==
    /\ r.resolution = "" /\ r.frame_rate = "" /\ r.duration = ""
    /\ r.bit_rate = "" /\ r.file_size = "" /\ r.file_hash = ""
    /\ r.thumbnails_base64 = <<>>

\* every field of an InspectionResult is filled and there is no error
FieldsFull(r) ==
    /\ r.resolution # "" /\ r.frame_rate # "" /\ r.duration # ""
    /\ r.bit_rate # "" /\ r.file_size # "" /\ r.file_hash # ""
    /\ Len(r.thumbnails_base64) = ThumbCount
    /\ r.error = ""

\* C1: in every invocation the stages that have ended are Validate, Probe,
\* Thumbnails, Hash, Assemble in this order, every one but the last of them
\* with success; the invocation is Failed exactly when the last one failed and
\* is otherwise in the next stage; tools are spawned, frames collected and the
\* file hashed only once the stages before have succeeded; and an invocation
\* that is Failed or Done never moves again.
C1_StageOrderState ==
    \A i \in DOMAIN invs :
        LET inv == invs[i]
            n == Len(inv.done)
        IN  /\ n <= Len(StageOrder)
            /\ \A k \in 1..n :
                  /\ inv.done[k].stage = StageOrder[k]
                  /\ k < n => inv.done[k].outcome = "ok"
            /\ inv.stage = IF n > 0 /\ inv.done[n].outcome # "ok"
                           THEN "Failed" ELSE StageAfter(n)
            /\ inv.spawned > 0 => n >= 1 /\ inv.done[1].outcome = "ok"
            /\ (inv.frames > 0 \/ inv.retried) => n >= 2 /\ inv.done[2].outcome = "ok"
            /\ inv.hash # "" => n >= 4 /\ inv.done[3].outcome = "ok"
            /\ inv.stage = "Failed" => inv.err = inv.done[n].outcome

\* C1: the stage order above holds in every state, and an invocation that is
\* Failed or Done takes no further step (only the note that its file was
\* modified may change).
C1_StagesSequential ==
    /\ []C1_StageOrderState
    /\ [][\A i \in DOMAIN invs :
            IsTerminal(invs[i]) =>
                [invs'[i] EXCEPT !.stale = FALSE] = [invs[i] EXCEPT !.stale = FALSE]]_vars

\* C1 witness: a probe failure, with no thumbnail and no hash step
C1_Witness ==
    \E i \in DOMAIN invs :
        /\ invs[i].stage = "Failed" /\ invs[i].err = "ProbeFailed"
        /\ Len(invs[i].done) = 2 /\ invs[i].frames = 0 /\ invs[i].hash = ""

\* C2: an invocation on a path that does not exist, and did not since the
\* call began, spawns no subprocess, never leaves Validate but to fail, and
\* its result is FileNotFound.
C2_FileNotFoundNoSpawn ==
    \A i \in DOMAIN invs :
        LET inv == invs[i]
        IN  (disk[inv.path].kind = "missing" /\ IsFresh(inv)) =>
                /\ inv.spawned = 0
                /\ inv.child = "none"
                /\ inv.stage \in {"Validate", "Failed"}
                /\ IsTerminal(inv) =>
                      /\ inv.err = "FileNotFound"
                      /\ inv.result.error = ErrMsg("FileNotFound")

\* C2 witness: a finished invocation on a missing path
C2_Witness ==
    \E i \in DOMAIN invs :
        /\ disk[invs[i].path].kind = "missing" /\ IsFresh(invs[i])
        /\ invs[i].stage = "Failed" /\ invs[i].spawned = 0

\* C3: every completion of a get_video_metadata call removes one call from
\* those in flight and writes exactly one entry for the call's path: a
\* resolved call an entry of metadataMap, which is a full result or a result
\* that carries an error and nothing else, with errorMap left alone; a
\* rejected call a non-empty entry of errorMap, with metadataMap left alone.
C3_OneEntryPerCompletion ==
    [][last'.op = "processFile" =>
        LET p == last'.path
        IN  /\ BagCardinality(inflight') = BagCardinality(inflight) - 1
            /\ \/ /\ last'.how = "resolved"
                  /\ metadataMap'[p] # NoData
                  /\ \/ FieldsFull(metadataMap'[p])
                     \/ metadataMap'[p].error # "" /\ FieldsEmpty(metadataMap'[p])
                  /\ errorMap' = errorMap
               \/ /\ last'.how = "rejected"
                  /\ errorMap'[p] # Undefined /\ errorMap'[p] # ""
                  /\ metadataMap' = metadataMap]_vars

\* C3 witness: a call has been rejected and its path has an error entry only
C3_Witness ==
    /\ last.op = "processFile" /\ last.how = "rejected"
    /\ errorMap[last.path] = ErrMsg("FileNotFound")
    /\ metadataMap[last.path] = NoData

\* C4: a result of inspect that has its error field set has every numeric
\* and derived field empty.
C4_ErrorMeansEmpty ==
    \A i \in DOMAIN invs :
        LET r == invs[i].result
        IN  IF r = NoData THEN ~IsTerminal(invs[i])
            ELSE r.error # "" => FieldsEmpty(r)

\* C4 witness: an invocation that failed in Hash, after the probe and all
\* thumbnails had succeeded
C4_Witness ==
    \E i \in DOMAIN invs :
        /\ invs[i].err = "HashFailed" /\ invs[i].frames = ThumbCount
        /\ invs[i].result.error # ""

\* C5: a card whose error prop is set renders the error view, and a card
\* whose error prop or metadata.error is set renders an error-only view (the
\* error view or the failed-result view) that shows no numeric field and no
\* thumbnail, whatever metadata is stored for the path.
C5_ErrorOnlyView ==
    \A file \in Range(files) :
        LET card == Card(file)
            propSet == errorMap[file] # Undefined /\ errorMap[file] # ""
            metaErr == metadataMap[file] # NoData /\ metadataMap[file].error # ""
        IN  /\ propSet => card.view = "error"
            /\ (propSet \/ metaErr) =>
                  /\ card.view \in {"error", "failed-result"}
                  /\ card.shows \cap NumericFields = {}
            /\ card.view = "result" <=> (~propSet /\ ~metaErr /\ metadataMap[file] # NoData)
            /\ card.view = "loading" <=> (~propSet /\ metadataMap[file] = NoData)

\* C5 witness: a card with the error prop set while a full result is stored
\* for its path
C5_Witness ==
    \E file \in Range(files) :
        /\ errorMap[file] # Undefined
        /\ metadataMap[file] # NoData /\ metadataMap[file].error = ""
        /\ Card(file).view = "error"

\* C6: when a card has been deleted, no call for its path is left in flight
\* with a tool process running.
C6_DeleteTerminatesChild ==
    last.op = "removeFile" =>
        \A c \in BagToSet(inflight) : c.path = last.path => ~c.child

\* C7: an invocation that has returned has no child process running; one
\* that ended with Timeout(Probe) has had its child killed; and on a file on
\* which the probing tool does not exit, an invocation that has returned has
\* ended with Timeout(Probe).
C7_ProbeTimeoutKills ==
    \A i \in DOMAIN invs :
        LET inv == invs[i]
        IN  /\ IsTerminal(inv) => inv.child # "running"
            /\ inv.err = "Timeout(Probe)" => inv.child = "killed" /\ IsTerminal(inv)
            /\ (disk[inv.path].kind = "probeHang" /\ IsFresh(inv) /\ IsTerminal(inv)) =>
                  /\ inv.err = "Timeout(Probe)"
                  /\ inv.result.error = ErrMsg("Timeout(Probe)")

\* C7 witness: a probe that ran into the timeout and was killed
C7_Witness ==
    \E i \in DOMAIN invs :
        /\ invs[i].err = "Timeout(Probe)" /\ invs[i].child = "killed"
        /\ invs[i].elapsed = TimeoutTicks /\ invs[i].spawned = 1

\* C8: a completion of a call for a path changes no entry of metadataMap or
\* errorMap of any other path and leaves files alone, and what it stores for
\* its path is the outcome of the invocation on that path.
C8_CompletionsIndependent ==
    [][last'.op = "processFile" =>
        LET p == last'.path
        IN  /\ \A q \in Paths \ {p} :
                  /\ metadataMap'[q] = metadataMap[q]
                  /\ errorMap'[q] = errorMap[q]
            /\ files' = files
            /\ last'.how = "resolved" =>
                  \E f \in SampleFiles : metadataMap'[p] = Inspect(p, f).result
            /\ last'.how = "rejected" =>
                  \E f \in SampleFiles : errorMap'[p] = ErrMsg(Inspect(p, f).err)]_vars

\* C8 witness: the call for a.mp4 has completed while the call for b.mp4,
\* issued before it, is still in flight
C8_Witness ==
    /\ last.op = "processFile" /\ last.path = "a.mp4"
    /\ files = <<"b.mp4", "a.mp4">>
    /\ \E c \in BagToSet(inflight) : c.path = "b.mp4"
    /\ metadataMap["a.mp4"] # NoData /\ metadataMap["b.mp4"] = NoData

\* C9: a click on retry on a card removes the path's entries from errorMap
\* and metadataMap, so that the card shows the loading view, issues one new
\* call for the same path, which starts from scratch, changes no entry of
\* another path and leaves files alone.
C9_RetryReplays ==
    [][last'.op = "handleRetryVideo" =>
        LET p == last'.path
        IN  /\ p \in Range(files)
            /\ "retry" \in Card(p).buttons
            /\ errorMap' = [errorMap EXCEPT ![p] = Undefined]
            /\ metadataMap' = [metadataMap EXCEPT ![p] = NoData]
            /\ Video(p, metadataMap'[p], errorMap'[p]).view = "loading"
            /\ inflight' = inflight (+) SetToBag({Call(p, FALSE)})
            /\ files' = files]_vars

\* C9 witness: retry has been clicked on a failed card, which now loads
C9_Witness ==
    /\ last.op = "handleRetryVideo"
    /\ last.path \in Range(files)
    /\ Card(last.path).view = "loading"
    /\ BagIn(Call(last.path, FALSE), inflight)

FrameAttemptEnds(i) ==
    /\ invs[i].stage = "Thumbnails" /\ invs[i].child = "running"
    /\ invs'[i].child = "exited"

\* the transcoding tool of invocation i is launched in this step
FrameAttemptStarts(i) ==
    /\ invs[i].stage = "Thumbnails" /\ invs[i].child # "running"
    /\ invs'[i].child = "running"

\* C12: a frame that the transcoding tool fails to produce at its timestamp
\* is tried once more, at an earlier timestamp still inside the clip, and
\* only the failure of that retry surfaces ThumbnailFailed; after a retry the
\* generator is at the next frame or has failed, so no timestamp is retried
\* twice.
C12_OneRetryPerFrame ==
    [][\A i \in DOMAIN invs :
         LET a == invs[i]
             b == invs'[i]
         IN  /\ FrameAttemptEnds(i) /\ b.frames = a.frames /\ ~a.retried =>
                    b.stage = "Thumbnails" /\ b.retried /\ b.err = ""
             /\ FrameAttemptEnds(i) /\ b.frames = a.frames /\ a.retried =>
                    b.stage = "Failed" /\ b.err = "ThumbnailFailed"
             /\ FrameAttemptEnds(i) /\ b.frames # a.frames =>
                    b.frames = a.frames + 1 /\ ~b.retried /\ b.err = ""
             /\ FrameAttemptStarts(i) /\ ~a.retried =>
                    b.seek = Timestamp(a.duration, ThumbCount, a.frames + 1)
             /\ FrameAttemptStarts(i) /\ a.retried =>
                    /\ a.seek = Timestamp(a.duration, ThumbCount, a.frames + 1)
                    /\ Less(b.seek, a.seek) /\ Less(Rat(0, 1), b.seek)
             /\ b.err = "ThumbnailFailed" /\ a.err # "ThumbnailFailed" =>
                    FrameAttemptEnds(i) /\ a.retried
             /\ b.spawned <= 1 + 2 * (b.frames + 1)
             /\ b.spawned <= 1 + 2 * ThumbCount
    ]_vars

\* the first frame has failed at its timestamp and at the earlier one: the
\* probing tool and two transcoding tools were launched
C12_Witness ==
    \E i \in DOMAIN invs :
        /\ invs[i].err = "ThumbnailFailed" /\ invs[i].retried
        /\ invs[i].frames = 0 /\ invs[i].spawned = 3
        /\ Less(invs[i].seek, Timestamp(invs[i].duration, ThumbCount, 1))

\* the positions of prevFiles that hold another path than p
Kept(prevFiles, p) == {i \in DOMAIN prevFiles : prevFiles[i] # p}

\* C13: deleting the card of p leaves files without p, the other paths in
\* the order they had, no metadataMap or errorMap entry for p, and every
\* other path's entries as they were.
C13_DeleteFrame ==
    [][last'.op = "removeFile" =>
        LET p == last'.path
            keep == Kept(files, p)
        IN  /\ p \in Range(files) /\ p \notin Range(files')
            /\ Len(files') = Cardinality(keep)
            /\ \A i \in keep :
                   files'[Cardinality({j \in keep : j <= i})] = files[i]
            /\ metadataMap'[p] = NoData /\ errorMap'[p] = Undefined
            /\ \A q \in DOMAIN metadataMap \ {p} :
                   metadataMap'[q] = metadataMap[q] /\ errorMap'[q] = errorMap[q]
            /\ DOMAIN metadataMap' = DOMAIN metadataMap
            /\ DOMAIN errorMap' = DOMAIN errorMap]_vars

\* a card was deleted; two other cards remain, c.mp4 before a.mp4, with the
\* result of one and the error of the other still stored
C13_Witness ==
    /\ last.op = "removeFile" /\ last.path = "b.mp4"
    /\ files = <<"c.mp4", "a.mp4">>
    /\ metadataMap["c.mp4"] # NoData /\ errorMap["a.mp4"] # Undefined
    /\ metadataMap["b.mp4"] = NoData /\ errorMap["b.mp4"] = Undefined

\* C14: when the script bumps the version x.y.z it has read, a patch bump
\* gives x.y.(z+1), a minor bump x.(y+1).0, a major bump (x+1).0.0, and the
\* version object handed to bumpVersion is still x.y.z afterwards.
C14_BumpRules ==
    [][proc.pc = "read" /\ proc'.pc = "updatePackageJson" =>
        LET versionStr == tree0[FILES.packageJson].version
            x == versionStr[1]
            y == versionStr[2]
            z == versionStr[3]
            n == proc'.newVersion
        IN  /\ Len(versionStr) = 3
            /\ proc.bumpLevel \in Levels
            /\ proc.bumpLevel = "patch" =>
                   n.major = x /\ n.minor = y /\ n.patch = z + 1
            /\ proc.bumpLevel = "minor" =>
                   n.major = x /\ n.minor = y + 1 /\ n.patch = 0
            /\ proc.bumpLevel = "major" =>
                   n.major = x + 1 /\ n.minor = 0 /\ n.patch = 0
            /\ proc'.currentVersion = [major |-> x, minor |-> y, patch |-> z]
            /\ DOMAIN n = {"major", "minor", "patch"}]_vars

\* 1.0.1 has been bumped at level minor to 1.1.0
C14_Witness ==
    /\ proc.pc = "updatePackageJson" /\ proc.bumpLevel = "minor"
    /\ formatVersion(proc.currentVersion) = <<1, 0, 1>>
    /\ formatVersion(proc.newVersion) = <<1, 1, 0>>

\* the three version files
VersionFiles == {FILES.packageJson, FILES.cargoToml, FILES.tauriConf}

\* every version file carries the new version
AllAtNewVersion ==
    \A f \in VersionFiles :
        tree[f].exists /\ tree[f].version = formatVersion(proc.newVersion)

\* C15: when the script has ended, either all three version files carry the
\* new version or none of them has changed; a run that failed has not left
\* some files at the new version and others at the old one.
C15_AtomicUpdate ==
    proc.pc = "exit" =>
        /\ AllAtNewVersion \/ tree = tree0
        /\ proc.code = 0 => AllAtNewVersion

\* the run was given no argument or more than two, a bump level (the first
\* argument in lower case, as main reads it) that is none of patch, minor,
\* major, or a package.json whose version is not of the form x.y.z
RejectedInput ==
    \/ Len(argv) = 0
    \/ Len(argv) > 2
    \/ toLowerCase(argv[1]) \notin Levels
    \/ tree0[FILES.packageJson].exists /\ ~VersionRegex(tree0[FILES.packageJson].version)

\* C16: on such input the script never gets to its updates: no file is
\* written, no command is run, and it exits with status 1.
C16_RejectsBadInput ==
    RejectedInput =>
        /\ proc.pc \in {"main", "read", "exit"}
        /\ proc.pc = "exit" => proc.code = 1
        /\ tree = tree0
        /\ proc.cmds = <<>>
        /\ git.status \subseteq {OtherFile} /\ git.index = {}
        /\ git.commits = <<>> /\ git.tags = {}

\* a valid level but version "0.1" in package.json: exit 1 at parseVersion
C16_Witness ==
    /\ proc.pc = "exit" /\ proc.code = 1
    /\ argv = <<"patch">> /\ proc.bumpLevel = "patch"
    /\ tree0[FILES.packageJson] = Content(TRUE, <<0, 1>>)
    /\ tree = tree0

\* the new version as the README defines it: the bump, at the level given,
\* of the version package.json held when the script started
ExpectedVersion ==
    LET v == tree0[FILES.packageJson].version
        level == toLowerCase(argv[1])
    IN  CASE level = "patch" -> <<v[1], v[2], v[3] + 1>>
          [] level = "minor" -> <<v[1], v[2] + 1, 0>>
          [] level = "major" -> <<v[1] + 1, 0, 0>>

\* C17: when the script has ended with status 0, package.json, Cargo.toml
\* and tauri.conf.json all carry the bump of package.json's previous
\* version, whatever versions Cargo.toml and tauri.conf.json held before.
C17_SameVersionAfterRun ==
    proc.pc = "exit" /\ proc.code = 0 =>
        \A f \in VersionFiles :
            tree[f].exists /\ tree[f].version = ExpectedVersion

\* a successful run on three files that held three different versions
C17_Witness ==
    /\ proc.pc = "exit" /\ proc.code = 0 /\ proc.warned
    /\ tree0[FILES.packageJson].version = <<1, 0, 1>>
    /\ tree0[FILES.cargoToml].version = <<0, 1, 0>>
    /\ tree0[FILES.tauriConf].version = <<0, 1, 1>>
    /\ \A f \in VersionFiles : tree[f].version = <<1, 0, 2>>

\* the place of a command in the README's list of steps
StepRank(c) ==
    CASE c.cmd = "write"       -> 1
      [] c.cmd = "cargo check" -> 2
      [] c.cmd = "git add"     -> 3
      [] c.cmd = "git commit"  -> 4
      [] c.cmd = "git tag"     -> 5

GitCommands == {"git add", "git commit", "git tag"}

\* C18: in automatic mode the commands run so far are in the order write
\* (three files), cargo check, git add, git commit, git tag; cargo check
\* comes after the three writes, the tag after a commit that succeeded, and
\* a git command that failed is the last thing the run did: the script has
\* stopped.
C18_StepsInOrder ==
    LET cmds == proc.cmds
    IN  proc.shouldCommit =>
          /\ \A i, j \in DOMAIN cmds : i < j => StepRank(cmds[i]) <= StepRank(cmds[j])
          /\ \A j \in DOMAIN cmds : StepRank(cmds[j]) >= 2 =>
                 /\ j > 3
                 /\ \A i \in 1..3 : cmds[i].cmd = "write" /\ cmds[i].ok
          /\ \A j \in DOMAIN cmds : cmds[j].cmd = "git tag" =>
                 \E i \in 1..(j - 1) : cmds[i].cmd = "git commit" /\ cmds[i].ok
          /\ \A i \in DOMAIN cmds : cmds[i].cmd \in GitCommands /\ ~cmds[i].ok =>
                 i = Len(cmds) /\ proc.pc = "exit" /\ proc.code = 1

\* C19: when the script has ended with status 0 in automatic mode, every
\* one of its commands having succeeded and the new version committed and
\* tagged, nothing is left uncommitted: no file is modified in the work tree
\* and nothing is staged, whatever else was modified when the script
\* started.
C19_CleanWorkspace ==
    /\ proc.pc = "exit" /\ proc.code = 0 /\ proc.shouldCommit
    /\ formatVersion(proc.newVersion) \in git.tags
    /\ \A i \in DOMAIN proc.cmds : proc.cmds[i].ok
    => git.status = {} /\ git.index = {}

\* --no-commit was given after a valid bump level
NoCommitRun ==
    Len(argv) = 2 /\ toLowerCase(argv[1]) \in Levels /\ argv[2] = "--no-commit"

\* the three files were there with a version to replace when the script
\* started, and no write has failed
FilesUsable ==
    /\ \A f \in VersionFiles : tree0[f].exists /\ tree0[f].version # <<>>
    /\ VersionRegex(tree0[FILES.packageJson].version)
    /\ \A i \in DOMAIN proc.cmds : proc.cmds[i].ok

\* C20: with --no-commit after a valid bump level the script runs nothing
\* but its file writes (no cargo check, no git add, commit or tag; index,
\* commits, tags and Cargo.lock stay as they were), and it still ends with
\* status 0 and the new version written to the three files.
C20_NoCommitOnlyWrites ==
    NoCommitRun =>
        /\ \A i \in DOMAIN proc.cmds : proc.cmds[i].cmd = "write"
        /\ proc.pc \notin {"checkGitStatus", "updateCargoLock", "addVersionFiles",
                            "hasStagedChanges", "commit", "tag"}
        /\ git.index = {} /\ git.commits = <<>> /\ git.tags = {}
        /\ CargoLock \notin git.status
        /\ proc.pc = "exit" /\ FilesUsable =>
               /\ proc.code = 0 /\ AllAtNewVersion
               /\ ExpectedVersion = formatVersion(proc.newVersion)
               /\ [i \in DOMAIN proc.cmds |-> proc.cmds[i].arg] =
                      <<FILES.packageJson, FILES.cargoToml, FILES.tauriConf>>

\* a run with "major --no-commit" has ended: 0.1.1 became 1.0.0 in the three
\* files and nothing else was run
C20_Witness ==
    /\ argv = <<"major", "--no-commit">>
    /\ proc.pc = "exit" /\ proc.code = 0 /\ ~proc.shouldCommit
    /\ tree0[FILES.packageJson].version = <<0, 1, 1>>
    /\ \A f \in VersionFiles : tree[f].version = <<1, 0, 0>>
    /\ Len(proc.cmds) = 3 /\ git.commits = <<>>

\* the k-th curl of download_with_retry when it goes through the sources in
\* their order with two attempts each
ExpectedAttempt(k) ==
    [url |-> LINUX_URLS[((k - 1) \div 2) + 1], i |-> ((k - 1) % 2) + 1]

\* the attempts made so far are the first ones of that list, only the last
\* one may have succeeded, and there are at most two per source; 0 is
\* returned exactly after a successful attempt and 1 only after all have
\* failed
RetryInOrder ==
    LET a == dl.retry.attempts
    IN  /\ Len(a) <= 2 * Len(LINUX_URLS)
        /\ \A k \in DOMAIN a :
              /\ [url |-> a[k].url, i |-> a[k].i] = ExpectedAttempt(k)
              /\ a[k].ok => k = Len(a)
        /\ dl.retry.result = "success" <=> (a # <<>> /\ a[Len(a)].ok)
        /\ dl.retry.result = "failure" =>
              /\ Len(a) = 2 * Len(LINUX_URLS)
              /\ \A k \in DOMAIN a : ~a[k].ok
              /\ dl.pc = "exit" /\ dl.code = 1

\* C21: download_with_retry tries the Linux sources in their listed order,
\* the GitHub BtbN release first, with at most 2 attempts per source; it
\* returns success at the first successful attempt and contacts no source
\* after it, returns failure only after every source has failed both
\* attempts, makes at most 2 * (number of sources) attempts, and always
\* returns.
C21_RetryTerminatesInOrder ==
    /\ [](/\ RetryInOrder
          /\ LINUX_URLS[1] = "https://github.com/BtbN/FFmpeg-Builds/releases/latest/download/ffmpeg-master-latest-linux64-gpl.tar.xz")
    /\ (dl.retry.result = "running") ~> (dl.retry.result \in {"success", "failure"})

\* the first source failed twice, the second failed once and then delivered
\* the archive: four attempts, and the third source was never contacted
C21_Witness ==
    /\ dl.retry.result = "success"
    /\ Len(dl.retry.attempts) = 4
    /\ dl.retry.attempts[4].url = LINUX_URLS[2]
    /\ \A k \in DOMAIN dl.curls : dl.curls[k].url # LINUX_URLS[3]

\* the supported target triples and the platform each one names
SupportedTriples ==
    [t \in {"x86_64-apple-darwin", "aarch64-apple-darwin",
            "x86_64-pc-windows-msvc", "x86_64-unknown-linux-gnu"} |->
        CASE t = "x86_64-apple-darwin" -> "macos_x86"
          [] t = "aarch64-apple-darwin" -> "macos_arm64"
          [] t = "x86_64-pc-windows-msvc" -> "windows"
          [] OTHER -> "linux"]

\* the triple the argument stands for (-c is the short form of --current)
RequestedTriple ==
    IF dl.arg \in {"--current", "-c"} THEN detect_current_target(dl.host) ELSE dl.arg

\* the platforms the argument selects, in the order they are processed
SelectedPlatforms ==
    IF dl.arg = "" THEN <<"macos_x86", "macos_arm64", "windows", "linux">>
    ELSE IF RequestedTriple \in DOMAIN SupportedTriples
         THEN <<SupportedTriples[RequestedTriple]>>
         ELSE <<>>

IsPrefix(s, t) == Len(s) <= Len(t) /\ \A k \in DOMAIN s : s[k] = t[k]

\* the addresses the download function of a platform fetches from
PlatformUrls(platform) ==
    CASE platform = "macos_x86" -> {MACOS_FFMPEG_URL, MACOS_FFPROBE_URL}
      [] platform = "macos_arm64" -> {MACOS_ARM64_FFMPEG_URL, MACOS_ARM64_FFPROBE_URL}
      [] platform = "windows" -> {WINDOWS_URL}
      [] platform = "linux" -> Range(LINUX_URLS)
      [] OTHER -> {}

\* C22: the argument selects the platforms: none given, all four in the
\* order macOS x86_64, macOS ARM64, Windows, Linux; a supported triple, or
\* --current resolving to one, that platform and no other; an unsupported
\* triple, or --current on an undetectable platform, ends the script with
\* status 1 before any download is started.  The platforms started are
\* always the first ones of the selection, nothing is fetched for another
\* platform, and the summary is printed only after all of the selection.
C22_PlatformsByArgument ==
    /\ IsPrefix(dl.started, SelectedPlatforms)
    /\ \A k \in DOMAIN dl.curls :
          \E n \in DOMAIN dl.started : dl.curls[k].url \in PlatformUrls(dl.started[n])
    /\ dl.summary # {} => dl.started = SelectedPlatforms
    /\ SelectedPlatforms = <<>> =>
          /\ dl.pc \in {"args", "exit"}
          /\ dl.pc = "exit" => dl.code = 1
          /\ dl.curls = <<>> /\ dl.bins = {}

\* --current on an ARM Mac: the macOS ARM64 binaries were fetched from their
\* two addresses, nothing else, and the summary was printed
C22_Witness ==
    /\ dl.arg = "--current" /\ dl.host = [os |-> "Darwin", arch |-> "arm64"]
    /\ dl.started = <<"macos_arm64">>
    /\ dl.summary = {"aarch64-apple-darwin"}
    /\ Len(dl.curls) = 2 /\ dl.pc = "exit" /\ dl.code = 0

\* C30: whenever the script has printed its success summary for a platform,
\* the ffmpeg and the ffprobe binary of that platform's target triple are
\* both in the binaries directory.
C30_SummaryImpliesBinaries ==
    \A triple \in dl.summary :
        \A tool \in Tools : Binary(tool, triple) \in dl.bins

\* C24: the files list never holds the same path twice.
C24_NoDuplicatePaths ==
    \A i, j \in DOMAIN files : i # j => files[i] # files[j]

\* C23: a drop or a selection of a path that is in the files list starts no
\* get_video_metadata call and leaves files, metadataMap and errorMap as
\* they are, whatever the state of the path's card.
C23_DropOfListedPathIgnored ==
    [][(last'.op = "handleFileDrop" /\ last'.path \in Range(files))
          => /\ files' = files /\ metadataMap' = metadataMap /\ errorMap' = errorMap
             /\ inflight' = inflight
             /\ last'.how = "ignored"]_vars

\* C25: no path has an entry in metadataMap and in errorMap at the same
\* time.
C25_ResultOrError ==
    \A p \in Paths : ~(metadataMap[p] # NoData /\ errorMap[p] # Undefined)

\* C26: every path with an entry in metadataMap or errorMap is in the files
\* list; nothing is stored for a deleted card.
C26_EntriesOnlyForListedFiles ==
    \A p \in Paths :
        (metadataMap[p] # NoData \/ errorMap[p] # Undefined) => p \in Range(files)

\* the card of p is in the grid and shows the loading view
Loading(p) ==
    p \in Range(files) /\ metadataMap[p] = NoData /\ errorMap[p] = Undefined

\* C27: provided every get_video_metadata call eventually resolves or
\* rejects, every path in the files list that shows the loading view, after
\* it was added or after a retry, eventually has a metadataMap or errorMap
\* entry or has been deleted.
C27_LeavesLoading ==
    \A p \in Paths :
        Loading(p) ~>
            (p \notin Range(files) \/ metadataMap[p] # NoData \/ errorMap[p] # Undefined)

\* a.mp4 is loading again after a retry: its first call has completed with
\* a rejection and the retry's call is in flight
C27_Witness ==
    /\ Loading("a.mp4") /\ Card("a.mp4").view = "loading"
    /\ last = [op |-> "handleRetryVideo", path |-> "a.mp4", how |-> ""]
    /\ \E c \in BagToSet(inflight) : c.path = "a.mp4"

\* C28: once every pending registration of the drag-drop listener has
\* resolved, exactly one listener is registered and it is the one bound to
\* the most recent handleFileDrop, whatever the order in which the
\* registration promises resolved; a drop event is then handled once, by
\* that handleFileDrop.
C28_OneCurrentListener ==
    (lsn.render > 0 /\ lsn.pending = {}) => lsn.listeners = {lsn.render}

\* C29: in automatic mode, when nothing is staged after the version files
\* have been added, the version script makes neither a commit nor a tag and
\* ends without error.
C29_NothingStagedNoCommit ==
    [][(proc.pc = "hasStagedChanges" /\ git.index = {})
          => /\ proc'.pc = "exit" /\ proc'.code = 0
             /\ proc'.cmds = proc.cmds
             /\ git' = git /\ git'.commits = <<>> /\ git'.tags = {}
             /\ tree' = tree]_vars

\* an automatic run has ended with status 0 after every git add had failed:
\* nothing was staged, and there is no commit and no tag
C29_Witness ==
    /\ proc.pc = "exit" /\ proc.code = 0 /\ proc.shouldCommit
    /\ proc.added = Len(versionFiles)
    /\ \E i \in DOMAIN proc.cmds : proc.cmds[i].cmd = "git add" /\ ~proc.cmds[i].ok
    /\ git.index = {} /\ git.commits = <<>> /\ git.tags = {}

====
